---- MODULE Spec2Model ----
(***************************************************************************)
(* Model of src-tauri/src/lib.rs: the request executor make_api_request,   *)
(* the first-party commands built on it, the flexible session_id decode    *)
(* and the three QR-login commands against the third-party upstream.       *)
(*                                                                         *)
(* Strings are sequences of one-character strings, header values are       *)
(* sequences of bytes, JSON numbers are kept as their wire tokens (sign,   *)
(* integer digits, fraction digits) so that parsing and formatting are     *)
(* computed, not assumed.                                                  *)
(***************************************************************************)
EXTENDS Integers, Sequences, FiniteSets, TLC

\* ------------------------------------------------------------------ bounds

\* Largest number of Set-Cookie headers on a modelled upstream response.
MaxCookies == 2

\* ------------------------------------------------------- digits and strings

DigitChars == <<"0", "1", "2", "3", "4", "5", "6", "7", "8", "9">>

\* itoa: the characters of a digit sequence.
DigitsToChars(ds) == [i \in 1..Len(ds) |-> DigitChars[ds[i] + 1]]

\* a <= b for digit sequences without leading zeros.
RECURSIVE LexLeq(_, _)
LexLeq(a, b) ==
    IF a = <<>> THEN TRUE
    ELSE IF Head(a) # Head(b) THEN Head(a) < Head(b)
    ELSE LexLeq(Tail(a), Tail(b))

DigitsLeq(a, b) ==
    IF Len(a) # Len(b) THEN Len(a) < Len(b) ELSE LexLeq(a, b)

RECURSIVE StripTrailingZeros(_)
StripTrailingZeros(ds) ==
    IF ds = <<>> THEN <<>>
    ELSE IF ds[Len(ds)] = 0 THEN StripTrailingZeros(SubSeq(ds, 1, Len(ds) - 1))
    ELSE ds

\* ds + 1 on a digit sequence (carry may lengthen it).
RECURSIVE IncDigits(_)
IncDigits(ds) ==
    IF ds = <<>> THEN <<1>>
    ELSE IF ds[Len(ds)] < 9
         THEN [ds EXCEPT ![Len(ds)] = @ + 1]
         ELSE Append(IncDigits(SubSeq(ds, 1, Len(ds) - 1)), 0)

\* The value of a short digit sequence.
RECURSIVE DigitsToNat(_)
DigitsToNat(ds) ==
    IF ds = <<>> THEN 0
    ELSE 10 * DigitsToNat(SubSeq(ds, 1, Len(ds) - 1)) + ds[Len(ds)]

\* u64::MAX = 18446744073709551615 and |i64::MIN| = 9223372036854775808,
\* the ranges of serde_json's integer representations (visit_u64, visit_i64).
U64MaxDigits == <<1,8,4,4,6,7,4,4,0,7,3,7,0,9,5,5,1,6,1,5>>
I64MinMagnitude == <<9,2,2,3,3,7,2,0,3,6,8,5,4,7,7,5,8,0,8>>
\* i32::MAX = 2147483647 and |i32::MIN| = 2147483648 (the `error: i32` fields).
I32MaxDigits == <<2,1,4,7,4,8,3,6,4,7>>
I32MinMagnitude == <<2,1,4,7,4,8,3,6,4,8>>

\* --------------------------------------------------------------- JSON values

\* One JSON value of a response body.  t is the JSON kind; "absent" marks a
\* key the body does not have.  A number keeps its wire token.
JV(t, s, neg, int, frac, b, shape) ==
    [t |-> t, s |-> s, neg |-> neg, int |-> int, frac |-> frac, b |-> b,
     shape |-> shape]

JAbsent == JV("absent", <<>>, FALSE, <<>>, <<>>, FALSE, "")
JNull == JV("null", <<>>, FALSE, <<>>, <<>>, FALSE, "")
JStr(s) == JV("str", s, FALSE, <<>>, <<>>, FALSE, "")
JBool(b) == JV("bool", <<>>, FALSE, <<>>, <<>>, b, "")
JInt(neg, int) == JV("num", <<>>, neg, int, <<>>, FALSE, "")
JFrac(neg, int, frac) == JV("num", <<>>, neg, int, frac, FALSE, "")
JArr(shape) == JV("arr", <<>>, FALSE, <<>>, <<>>, FALSE, shape)
\* An object; shape names the struct its fields match ("" for none).
JObj(shape) == JV("obj", <<>>, FALSE, <<>>, <<>>, FALSE, shape)

\* Option<String>
None == [some |-> FALSE, v |-> <<>>]
Some(s) == [some |-> TRUE, v |-> s]

\* ------------------------------------------------ serde_json numbers

\* serde_json's representation of a number token (Value deserialization,
\* default features): an integer token is a u64 when non-negative and in
\* range, an i64 when negative, nonzero and in range, otherwise (fraction,
\* out of range, or "-0") an f64.
NumberRep(n) ==
    IF n.frac # <<>> THEN "Float"
    ELSE IF ~n.neg
         THEN (IF DigitsLeq(n.int, U64MaxDigits) THEN "PosInt" ELSE "Float")
         ELSE (IF n.int # <<0>> /\ DigitsLeq(n.int, I64MinMagnitude)
               THEN "NegInt" ELSE "Float")

SignChars(n) == IF n.neg THEN <<"-">> ELSE <<>>

\* Display of an f64 (shortest round-trip form).  Below 1e16 the form is
\* positional with at least one fraction digit; from 1e16 on it is
\* scientific.  The scientific mantissa is the 17-digit rounding of the
\* token; the shortest form may have fewer digits, and has exactly these for
\* the out-of-range token used here, 18446744073709551616 (2^64), which
\* prints as 1.8446744073709552e19.
FormatF64(n) ==
    IF Len(n.int) <= 16
    THEN LET f == StripTrailingZeros(n.frac)
         IN  SignChars(n) \o DigitsToChars(n.int) \o <<".">>
                 \o DigitsToChars(IF f = <<>> THEN <<0>> ELSE f)
    ELSE LET all == n.int \o n.frac
             first == SubSeq(all, 1, 17)
             up == Len(all) > 17 /\ all[18] >= 5
             r == IF up THEN IncDigits(first) ELSE first
             carried == Len(r) > 17
             m == StripTrailingZeros(r)
             e == Len(n.int) - 1 + (IF carried THEN 1 ELSE 0)
             ed == IF e >= 10 THEN <<e \div 10, e % 10>> ELSE <<e>>
         IN  SignChars(n) \o <<DigitChars[m[1] + 1]>>
                 \o (IF Len(m) > 1
                     THEN <<".">> \o DigitsToChars(SubSeq(m, 2, Len(m)))
                     ELSE <<>>)
                 \o <<"e">> \o DigitsToChars(ed)

\* Mutant: every number is printed as a double (n.as_f64()).
NumberToString_AsF64(n) == FormatF64(n)

\* Number::to_string
NumberToString(n) ==
    CASE NumberRep(n) = "PosInt" -> DigitsToChars(n.int)
      [] NumberRep(n) = "NegInt" -> <<"-">> \o DigitsToChars(n.int)
      [] OTHER -> FormatF64(n)

\* --------------------------------------------- flexible session_id decode

DecodeOk(v) == [ok |-> TRUE, val |-> v, err |-> ""]
DecodeErr(e) == [ok |-> FALSE, val |-> None, err |-> e]

\* SessionIdVisitor::visit_some: the value is read as a serde_json::Value
\* and matched on its kind.
visit_some(v) ==
    CASE v.t = "str" -> DecodeOk(Some(v.s))
      [] v.t = "num" -> DecodeOk(Some(NumberToString(v)))
      [] v.t = "null" -> DecodeOk(None)
      [] OTHER -> DecodeErr("invalid type: expected string, number, or null")

\* deserialize_session_id on a value that is present in the body:
\* deserialize_option gives visit_none for null and visit_some otherwise.
deserialize_session_id(v) ==
    IF v.t = "null" THEN DecodeOk(None) ELSE visit_some(v)

\* ------------------------------------------------------------ response text

\* The byte layout of a response text: runs of n characters of w bytes each.
RECURSIVE TextLen(_)
TextLen(layout) ==
    IF layout = <<>> THEN 0
    ELSE Head(layout).w * Head(layout).n + TextLen(Tail(layout))

\* str::is_char_boundary
RECURSIVE IsCharBoundary(_, _)
IsCharBoundary(layout, i) ==
    IF layout = <<>> THEN i = 0
    ELSE LET bytes == Head(layout).w * Head(layout).n
         IN  IF i < bytes THEN i % Head(layout).w = 0
             ELSE IsCharBoundary(Tail(layout), i - bytes)

\* The keys a response body may carry; a body that is not a JSON object has
\* json = FALSE.  qrcode_token and status are the fields of the object under
\* "data" of a QR status response.
EmptyObject ==
    [json |-> TRUE,
     success |-> JAbsent, message |-> JAbsent, session_id |-> JAbsent,
     email |-> JAbsent, machine_id |-> JAbsent, app_identifier |-> JAbsent,
     user |-> JAbsent, is_new_member |-> JAbsent, data |-> JAbsent,
     shopee_account |-> JAbsent, niche |-> JAbsent, niches |-> JAbsent,
     product_set |-> JAbsent, product_sets |-> JAbsent,
     error |-> JAbsent, error_msg |-> JAbsent,
     qrcode_token |-> JAbsent, status |-> JAbsent]

NotJson == [EmptyObject EXCEPT !.json = FALSE]

\* A response text, named by its byte layout and its body (see the inputs).
Text(layout, content) == [layout |-> layout, content |-> content]
NoText == Text("", <<"", "">>)

\* ------------------------------------------------------ messages and results

\* A formatted message: the format string of the source and its arguments.
\* num is the numeric argument (an HTTP status or an upstream error code).
Msg(fmt, num, text, detail, msg) ==
    [fmt |-> fmt, num |-> num, text |-> text, detail |-> detail,
     msg |-> msg]
NoMsg == Msg("", 0, NoText, "", <<>>)
\* A message that is a string of the response, verbatim.
Verbatim(s) == Msg("{}", 0, NoText, "", s)
\* A fixed text of the source.
Fixed(literal) == Msg(literal, 0, NoText, "", <<>>)

NoneMsg == [some |-> FALSE, m |-> NoMsg]
SomeMsg(m) == [some |-> TRUE, m |-> m]

\* The value a command returns on Ok.
NoVal ==
    [shape |-> "", session_ids |-> <<>>, success |-> FALSE, cookies |-> None,
     error_msg |-> NoneMsg, status |-> <<>>, qrcode_token |-> None]

NoResult == [kind |-> "None", err |-> NoMsg, val |-> NoVal]
Ok(v) == [kind |-> "Ok", err |-> NoMsg, val |-> v]
Err(m) == [kind |-> "Err", err |-> m, val |-> NoVal]
\* The call did not return: the task panicked.
Panicked == [kind |-> "Panic", err |-> NoMsg, val |-> NoVal]
OkShape(shape) == Ok([NoVal EXCEPT !.shape = shape])

\* -------------------------------------------------------------- serde fields

\* A required bool field.
BoolField(v) == v.t = "bool"
\* A required String field.
StringField(v) == v.t = "str"
\* An Option<String> field without deserialize_with: absent and null are None.
OptStringOk(v) == v.t \in {"absent", "null", "str"}
OptString(v) == IF v.t = "str" THEN Some(v.s) ELSE None

FieldError(name, v) ==
    IF v.t = "absent" THEN "missing field" ELSE "invalid type"

\* The parse of a body into one of the response types of the first-party
\* backend.  ok = FALSE is serde_json's error.
Parsed(success, message, session_id, data) ==
    [ok |-> TRUE, err |-> "", success |-> success, message |-> message,
     session_id |-> session_id, data |-> data]
ParseErr(e) ==
    [ok |-> FALSE, err |-> e, success |-> FALSE, message |-> None,
     session_id |-> None, data |-> [some |-> FALSE, obj |-> EmptyObject]]

NoData == [some |-> FALSE, obj |-> EmptyObject]
SomeData(c) == [some |-> TRUE, obj |-> c]

\* Whether the keys left after success and message deserialize as T, for the
\* flattened `data: Option<T>` of ApiResponse<T>: a T that does not
\* deserialize leaves data = None, and a serde_json::Value always
\* deserializes (to the object of the remaining keys).
FlattenedData(T, c) ==
    CASE T = "Value" -> SomeData(c)
      [] T = "LoginResponse" ->
            IF c.user.t = "obj" /\ c.user.shape = "User"
            THEN SomeData(c) ELSE NoData
      [] T = "RedeemLicenseResponse" ->
            IF c.is_new_member.t = "bool" THEN SomeData(c) ELSE NoData
      [] T = "ShopeeAccountsResponse" ->
            IF c.data.t = "arr" /\ c.data.shape = "ShopeeAccount"
            THEN SomeData(c) ELSE NoData
      [] T = "NichesResponse" ->
            IF c.niches.t = "arr" /\ c.niches.shape = "Niche"
            THEN SomeData(c) ELSE NoData
      [] T = "ProductSetsResponse" ->
            IF c.product_sets.t = "arr" /\ c.product_sets.shape = "ProductSet"
            THEN SomeData(c) ELSE NoData
      [] OTHER -> NoData

\* struct ApiResponse<T> { success, #[serde(flatten)] data, message }
ApiResponse(T, c) ==
    IF ~c.json THEN ParseErr("expected value")
    ELSE IF ~BoolField(c.success) THEN ParseErr(FieldError("success", c.success))
    ELSE IF ~OptStringOk(c.message) THEN ParseErr("invalid type")
    ELSE Parsed(c.success.b, OptString(c.message), None, FlattenedData(T, c))

\* struct MachineIdResponse { success, email, machine_id, app_identifier }
MachineIdResponse(c) ==
    IF ~c.json THEN ParseErr("expected value")
    ELSE IF ~BoolField(c.success) THEN ParseErr(FieldError("success", c.success))
    ELSE IF ~StringField(c.email) THEN ParseErr(FieldError("email", c.email))
    ELSE IF ~StringField(c.machine_id)
         THEN ParseErr(FieldError("machine_id", c.machine_id))
    ELSE IF ~OptStringOk(c.app_identifier) THEN ParseErr("invalid type")
    ELSE Parsed(c.success.b, None, None, SomeData(c))

\* struct ActiveSessionApiResponse { success, session_id, message }: the
\* session_id field has deserialize_with and no default, so a body without
\* the key is serde's missing-field error.
ActiveSessionApiResponse(c) ==
    IF ~c.json THEN ParseErr("expected value")
    ELSE IF ~BoolField(c.success) THEN ParseErr(FieldError("success", c.success))
    ELSE IF c.session_id.t = "absent" THEN ParseErr("missing field")
    ELSE IF ~deserialize_session_id(c.session_id).ok
         THEN ParseErr(deserialize_session_id(c.session_id).err)
    ELSE IF ~OptStringOk(c.message) THEN ParseErr("invalid type")
    ELSE Parsed(c.success.b, OptString(c.message),
                deserialize_session_id(c.session_id).val, NoData)

\* serde_json::from_str::<T>
from_str(T, c) ==
    CASE T = "MachineIdResponse" -> MachineIdResponse(c)
      [] T = "ActiveSessionApiResponse" -> ActiveSessionApiResponse(c)
      [] OTHER -> ApiResponse(T, c)

\* ----------------------------------------------------------------- inputs

Chars_x == <<"x">>
Chars_abc == <<"a", "b", "c">>
Chars_tok123 == <<"t", "o", "k", "1", "2", "3">>
Chars_WAITING == <<"W", "A", "I", "T", "I", "N", "G">>
Chars_CONFIRMED == <<"C", "O", "N", "F", "I", "R", "M", "E", "D">>

Digits_987654321 == <<9,8,7,6,5,4,3,2,1>>
\* 2^64 = u64::MAX + 1
Digits_2p64 == <<1,8,4,4,6,7,4,4,0,7,3,7,0,9,5,5,1,6,1,6>>

\* Wire values of the session_id key, by name.
SessionIdWire ==
    [absent |-> JAbsent,
     null |-> JNull,
     str_abc |-> JStr(Chars_abc),
     str_empty |-> JStr(<<>>),
     str_42 |-> JStr(<<"4", "2">>),
     int_987654321 |-> JInt(FALSE, Digits_987654321),
     int_0 |-> JInt(FALSE, <<0>>),
     int_minus5 |-> JInt(TRUE, <<5>>),
     int_minus0 |-> JInt(TRUE, <<0>>),
     int_u64max |-> JInt(FALSE, U64MaxDigits),
     int_2p64 |-> JInt(FALSE, Digits_2p64),
     int_i64min |-> JInt(TRUE, I64MinMagnitude),
     int_minus2p64 |-> JInt(TRUE, Digits_2p64),
     num_1_5 |-> JFrac(FALSE, <<1>>, <<5>>),
     num_987654321_0 |-> JFrac(FALSE, Digits_987654321, <<0>>),
     bool_true |-> JBool(TRUE),
     object |-> JObj(""),
     array |-> JArr("")]

Success == [EmptyObject EXCEPT !.success = JBool(TRUE)]
Failure == [EmptyObject EXCEPT !.success = JBool(FALSE)]
FailureX == [Failure EXCEPT !.message = JStr(Chars_x)]
UpstreamOk == [EmptyObject EXCEPT !.error = JInt(FALSE, <<0>>)]
UpstreamErr == [EmptyObject EXCEPT !.error = JInt(FALSE, <<2>>)]
StatusData(token, st) ==
    [UpstreamOk EXCEPT !.data = JObj(""), !.qrcode_token = token, !.status = st]

\* The other response bodies, by name.
Bodies ==
    [not_json |-> NotJson,
     failure |-> Failure,
     success_message |-> [Success EXCEPT !.message = JStr(Chars_x)],
     success_user |-> [Success EXCEPT !.user = JObj("User")],
     failure_x_payload |->
        [FailureX EXCEPT !.user = JObj("User"), !.data = JArr("ShopeeAccount")],
     success_machine_id |->
        [Success EXCEPT !.email = JStr(Chars_abc), !.machine_id = JStr(Chars_x)],
     failure_x_machine_id |->
        [FailureX EXCEPT !.email = JStr(Chars_abc), !.machine_id = JStr(Chars_x)],
     success_redeem |-> [Success EXCEPT !.is_new_member = JBool(TRUE)],
     success_data_accounts |-> [Success EXCEPT !.data = JArr("ShopeeAccount")],
     success_data_account |-> [Success EXCEPT !.data = JObj("ShopeeAccount")],
     success_shopee_account |->
        [Success EXCEPT !.shopee_account = JObj("ShopeeAccount")],
     success_niche |-> [Success EXCEPT !.niche = JObj("Niche")],
     success_niche_null |-> [Success EXCEPT !.niche = JNull],
     success_niches |-> [Success EXCEPT !.niches = JArr("Niche")],
     success_product_set |-> [Success EXCEPT !.product_set = JObj("ProductSet")],
     success_product_sets |->
        [Success EXCEPT !.product_sets = JArr("ProductSet")],
     error0 |-> UpstreamOk,
     error0_data_null |-> [UpstreamOk EXCEPT !.data = JNull],
     error0_qr |-> [UpstreamOk EXCEPT !.data = JObj("ShopeeQRData")],
     error0_account_info |-> [UpstreamOk EXCEPT !.data = JObj("ShopeeAccountInfo")],
     waiting_token_empty |-> StatusData(JStr(<<>>), JStr(Chars_WAITING)),
     waiting_token_omitted |-> StatusData(JAbsent, JStr(Chars_WAITING)),
     waiting_token_null |-> StatusData(JNull, JStr(Chars_WAITING)),
     confirmed_tok123 |-> StatusData(JStr(Chars_tok123), JStr(Chars_CONFIRMED)),
     error2 |-> UpstreamErr,
     error2_msg |-> [UpstreamErr EXCEPT !.error_msg = JStr(Chars_x)],
     error2_waiting |->
        [StatusData(JStr(<<>>), JStr(Chars_WAITING))
            EXCEPT !.error = JInt(FALSE, <<2>>)]]

\* A response body is named by a pair: {success:true, session_id: v} and
\* {success:false, message:"x", session_id: v} by the name of v, the others
\* by their own name.
ContentIds ==
    {<<"success", k>> : k \in DOMAIN SessionIdWire}
    \cup {<<"failure_x", k>> : k \in {"absent", "null", "str_abc"}}
    \cup {<<"body", k>> : k \in DOMAIN Bodies}

ContentOf(id) ==
    CASE id[1] = "success" -> [Success EXCEPT !.session_id = SessionIdWire[id[2]]]
      [] id[1] = "failure_x" -> [FailureX EXCEPT !.session_id = SessionIdWire[id[2]]]
      [] OTHER -> Bodies[id[2]]

Run(w, n) == [w |-> w, n |-> n]
\* Byte layouts by name: a short ASCII text; 500 ASCII bytes; 499 ASCII
\* bytes then a two-byte character (byte 500 is inside it); a two-byte
\* character before byte 500 (byte 500 is on a boundary).
LayoutOf ==
    [ascii_31 |-> <<Run(1, 31)>>,
     ascii_500 |-> <<Run(1, 500)>>,
     split_at_500 |-> <<Run(1, 499), Run(2, 1)>>,
     boundary_at_500 |-> <<Run(1, 498), Run(2, 1), Run(1, 100)>>]

Texts == {Text(l, c) : l \in DOMAIN LayoutOf, c \in ContentIds}

Statuses == {200, 299, 300, 500}

\* Set-Cookie values as bytes: "a=1", "b=2", and "c=" followed by byte 0xE9,
\* which is not visible ASCII.
HeaderValues == {<<97, 61, 49>>, <<98, 61, 50>>, <<99, 61, 233>>}

HeaderLists == UNION {[1..n -> HeaderValues] : n \in 0..MaxCookies}

Methods == {"GET", "POST", "PUT", "DELETE", "PATCH"}

\* The qrcode_id / qrcode_token parameters.
Args == {"abc", "def"}

\* ------------------------------------------------------------ make_api_request

ValidMethod(m) == m \in {"GET", "POST", "PUT", "DELETE"}

\* StatusCode::is_success
IsSuccess(status) == 200 <= status /\ status < 300

\* The response body is logged whole below this many bytes, and as its
\* first bytes from there on.
ResponseLogLimit == 500

\* The response logging: text.len() < 500 prints the text, otherwise
\* &text[..500] is printed, which panics when byte 500 is not on a character
\* boundary.  TRUE when the logging panics.
ResponseLogPanics(text) ==
    /\ ~(TextLen(LayoutOf[text.layout]) < ResponseLogLimit)
    /\ ~IsCharBoundary(LayoutOf[text.layout], ResponseLogLimit)

\* What make_api_request returns.
ApiOk(p) == [kind |-> "Ok", err |-> NoMsg, parsed |-> p]
ApiErr(m) == [kind |-> "Err", err |-> m, parsed |-> ParseErr("")]
ApiPanic == [kind |-> "Panic", err |-> NoMsg, parsed |-> ParseErr("")]
ApiNone == [kind |-> "None", err |-> NoMsg, parsed |-> ParseErr("")]
\* What the state keeps of it: Ok, Err with its message, or the panic.
Returned(r) == [kind |-> r.kind, err |-> r.err]

InvalidMethod == ApiErr(Fixed("Invalid HTTP method"))
RequestFailed == Msg("Request failed: {}", 0, NoText, "transport", <<>>)
ReadFailed == Msg("Failed to read response: {}", 0, NoText, "transport", <<>>)
HttpStatus(status, text) == Msg("HTTP {}: {}", status, text, "", <<>>)

\* The status check and the parse, on the status and text of the response.
ClassifyResponse(T, status, text) ==
    IF ~IsSuccess(status) THEN ApiErr(HttpStatus(status, text))
    ELSE IF from_str(T, ContentOf(text.content)).ok
         THEN ApiOk(from_str(T, ContentOf(text.content)))
         ELSE ApiErr(Msg("Failed to parse response: {} - {}", 0, text,
                         from_str(T, ContentOf(text.content)).err, <<>>))

\* make_api_request from the point where status and text are in hand: the
\* response logging, then the classification.
make_api_request(T, status, text) ==
    IF ResponseLogPanics(text) THEN ApiPanic
    ELSE ClassifyResponse(T, status, text)

\* ------------------------------------------------------ first-party commands

\* Per command: the method and response type it passes to make_api_request,
\* the fixed text it returns when success is false and there is no message,
\* how it takes its value out of the response (extract, with the key it
\* indexes and the struct it expects there) and the text for missing data.
Cmd(method, T, default, extract, key, struct, missing) ==
    [method |-> method, T |-> T, default |-> default, extract |-> extract,
     key |-> key, struct |-> struct, missing |-> missing]

Commands ==
    [get_user_machine_id |->
        Cmd("GET", "MachineIdResponse", "Failed to get machine ID from server",
            "flat", "", "", ""),
     login |->
        Cmd("POST", "LoginResponse", "Login failed", "data", "", "",
            "No user data in response"),
     redeem_license |->
        Cmd("POST", "RedeemLicenseResponse", "Redeem failed", "data", "", "",
            "No data in response"),
     update_machine_id |->
        Cmd("POST", "Value", "Failed to update machine ID", "unit", "", "", ""),
     change_password |->
        Cmd("POST", "Value", "Change password failed", "unit", "", "", ""),
     get_shopee_accounts |->
        Cmd("GET", "ShopeeAccountsResponse", "Failed to get accounts", "data",
            "", "", "No data in response"),
     add_shopee_account |->
        Cmd("POST", "Value", "Failed to add account", "key", "data",
            "ShopeeAccount", "No data in response"),
     update_shopee_account |->
        Cmd("PUT", "Value", "Failed to update account", "key",
            "shopee_account", "ShopeeAccount", "No data in response"),
     delete_shopee_account |->
        Cmd("DELETE", "Value", "Failed to delete account", "unit", "", "", ""),
     get_niches |->
        Cmd("GET", "NichesResponse", "Failed to get niches", "data", "", "",
            "No data in response"),
     create_niche |->
        Cmd("POST", "Value", "Failed to create niche", "key", "niche", "Niche",
            "No data in response"),
     update_niche |->
        Cmd("PUT", "Value", "Failed to update niche", "unit", "", "", ""),
     delete_niche |->
        Cmd("DELETE", "Value", "Failed to delete niche", "unit", "", "", ""),
     get_product_sets |->
        Cmd("GET", "ProductSetsResponse", "Failed to get product sets", "data",
            "", "", "No data in response"),
     create_product_set |->
        Cmd("POST", "Value", "Failed to create product set", "key",
            "product_set", "ProductSet", "No data in response"),
     update_product_set |->
        Cmd("PUT", "Value", "Failed to update product set", "unit", "", "", ""),
     delete_product_set |->
        Cmd("DELETE", "Value", "Failed to delete product set", "unit", "", "",
            ""),
     add_product_set_items |->
        Cmd("POST", "Value", "Failed to add items", "data_or_empty", "", "", ""),
     delete_product_set_item |->
        Cmd("DELETE", "Value", "Failed to delete item", "unit", "", "", ""),
     clear_product_set_items |->
        Cmd("DELETE", "Value", "Failed to clear items", "unit", "", "", ""),
     get_session_ids |->
        Cmd("POST", "ActiveSessionApiResponse", "Failed to get active session",
            "session_ids", "", "", ""),
     replace_products |->
        Cmd("POST", "Value", "Failed to replace products", "data_or_empty", "",
            "", ""),
     clear_products |->
        Cmd("POST", "Value", "Failed to clear products", "unit", "", "", "")]

FirstParty == DOMAIN Commands

\* serde_json's Value index: data[key], Null when the key is missing.
Index(c, key) ==
    LET v == CASE key = "data" -> c.data
               [] key = "shopee_account" -> c.shopee_account
               [] key = "niche" -> c.niche
               [] key = "product_set" -> c.product_set
               [] OTHER -> JAbsent
    IN  IF v.t = "absent" THEN JNull ELSE v

\* serde_json::from_value::<struct>(v) succeeds on an object of that struct.
from_value(struct, v) == v.t = "obj" /\ v.shape = struct

\* response.message.unwrap_or_else(|| default)
MessageOr(p, default) ==
    IF p.message.some THEN Verbatim(p.message.v) ELSE Fixed(default)

\* get_user_machine_id after make_api_request returned p.
get_user_machine_id(p) ==
    IF ~p.success THEN Err(Fixed(Commands.get_user_machine_id.default))
    ELSE OkShape("MachineIdResponse")

\* get_session_ids after make_api_request returned p.
get_session_ids(p) ==
    IF ~p.success THEN Err(MessageOr(p, Commands.get_session_ids.default))
    ELSE Ok([NoVal EXCEPT !.shape = "SessionIdsResponse",
                          !.session_ids = IF p.session_id.some
                                          THEN <<p.session_id.v>> ELSE <<>>])

\* The commands that read an ApiResponse<T>, after make_api_request
\* returned p.
EnvelopeCommand(c, p) ==
    IF ~p.success THEN Err(MessageOr(p, c.default))
    ELSE CASE c.extract = "unit" -> OkShape("()")
           [] c.extract = "data" ->
                 IF p.data.some THEN OkShape(c.T) ELSE Err(Fixed(c.missing))
           [] c.extract = "data_or_empty" -> OkShape("Value")
           [] c.extract = "key" ->
                 IF ~p.data.some THEN Err(Fixed(c.missing))
                 ELSE IF from_value(c.struct, Index(p.data.obj, c.key))
                      THEN OkShape(c.struct)
                      ELSE Err(Msg("Failed to parse: {}", 0, NoText,
                                   "invalid type", <<>>))
           [] OTHER -> Err(NoMsg)

\* A first-party command from the return value r of its make_api_request
\* call: a failure (or panic) of the call is the command's.
FirstPartyCommand(name, r) ==
    IF r.kind = "Panic" THEN Panicked
    ELSE IF r.kind = "Err" THEN Err(r.err)
    ELSE CASE name = "get_user_machine_id" -> get_user_machine_id(r.parsed)
           [] name = "get_session_ids" -> get_session_ids(r.parsed)
           [] OTHER -> EnvelopeCommand(Commands[name], r.parsed)

\* -------------------------------------------------- third-party (QR) commands

ThirdParty ==
    {"generate_shopee_qr", "check_qr_status", "qr_login", "get_account_info"}

\* An `error: i32` field: an integer token within i32.
I32Field(v) ==
    /\ v.t = "num"
    /\ NumberRep(v) \in {"PosInt", "NegInt"}
    /\ DigitsLeq(v.int, IF v.neg THEN I32MinMagnitude ELSE I32MaxDigits)

I32Value(v) == IF v.neg THEN 0 - DigitsToNat(v.int) ELSE DigitsToNat(v.int)

\* The `data: Option<D>` field of the upstream envelopes: absent and null
\* are None, an object must deserialize as D, anything else is an error.
\* A QRStatusData needs both of its String fields.
DataFieldOk(D, c) ==
    \/ c.data.t \in {"absent", "null"}
    \/ D = "Value"
    \/ /\ c.data.t = "obj"
       /\ IF D = "QRStatusData"
          THEN StringField(c.qrcode_token) /\ StringField(c.status)
          ELSE c.data.shape = D

UpstreamParsed(error, error_msg, hasData, c) ==
    [ok |-> TRUE, err |-> "", error |-> error, error_msg |-> error_msg,
     hasData |-> hasData, obj |-> c]
UpstreamParseErr(e) ==
    [ok |-> FALSE, err |-> e, error |-> 0, error_msg |-> None,
     hasData |-> FALSE, obj |-> EmptyObject]

\* serde_json::from_str into ShopeeQRResponse (D = ShopeeQRData),
\* ShopeeQRStatusResponse (QRStatusData), QRCodeLoginResponse (Value) or
\* ShopeeAccountInfoResponse (ShopeeAccountInfo).
UpstreamResponse(D, c) ==
    IF ~c.json THEN UpstreamParseErr("expected value")
    ELSE IF ~I32Field(c.error) THEN UpstreamParseErr(FieldError("error", c.error))
    ELSE IF ~OptStringOk(c.error_msg) THEN UpstreamParseErr("invalid type")
    ELSE IF ~DataFieldOk(D, c) THEN UpstreamParseErr("invalid data")
    ELSE UpstreamParsed(I32Value(c.error), OptString(c.error_msg),
                        c.data.t \notin {"absent", "null"}, c)

UpstreamParseFailed(text, e) ==
    Msg("Failed to parse response: {} - Response: {}", 0, text, e, <<>>)

\* format!("Shopee API error: {} - {}", error, error_msg or "Unknown error")
ShopeeApiError(p) ==
    Msg("Shopee API error: {} - {}", p.error, NoText, "",
        IF p.error_msg.some THEN p.error_msg.v ELSE <<"Unknown error">>)

UpstreamType ==
    [generate_shopee_qr |-> "ShopeeQRData", check_qr_status |-> "QRStatusData",
     qr_login |-> "Value", get_account_info |-> "ShopeeAccountInfo"]

UpstreamMissing ==
    [generate_shopee_qr |-> "Invalid response from Shopee API",
     check_qr_status |-> "No data in response",
     qr_login |-> "",
     get_account_info |-> "No account info in response"]

\* AppQRStatus { status, qrcode_token: None when the token is empty }
AppQRStatus(c) ==
    [NoVal EXCEPT !.shape = "AppQRStatus",
                  !.status = c.status.s,
                  !.qrcode_token = IF c.qrcode_token.s = <<>> THEN None
                                   ELSE Some(c.qrcode_token.s)]

\* Mutant: the error code is not looked at.
UpstreamCommand_IgnoresErrorCode(name, status, text) ==
    LET p == UpstreamResponse(UpstreamType[name], ContentOf(text.content))
    IN  IF ~IsSuccess(status) THEN Err(HttpStatus(status, text))
        ELSE IF ~p.ok THEN Err(UpstreamParseFailed(text, p.err))
        ELSE IF ~p.hasData THEN Err(Fixed(UpstreamMissing[name]))
        ELSE IF name = "check_qr_status" THEN Ok(AppQRStatus(p.obj))
        ELSE OkShape(UpstreamType[name])

\* generate_shopee_qr, check_qr_status and get_account_info from the point
\* where status and text are in hand.
UpstreamCommand(name, status, text) ==
    LET p == UpstreamResponse(UpstreamType[name], ContentOf(text.content))
    IN  IF ~IsSuccess(status) THEN Err(HttpStatus(status, text))
        ELSE IF ~p.ok THEN Err(UpstreamParseFailed(text, p.err))
        ELSE IF p.error # 0 THEN Err(ShopeeApiError(p))
        ELSE IF ~p.hasData THEN Err(Fixed(UpstreamMissing[name]))
        ELSE IF name = "check_qr_status" THEN Ok(AppQRStatus(p.obj))
        ELSE OkShape(UpstreamType[name])

check_qr_status(status, text) == UpstreamCommand("check_qr_status", status, text)

\* HeaderValue::to_str: the bytes as text, when all are visible ASCII.
to_str_ok(v) == \A i \in 1..Len(v) : (32 <= v[i] /\ v[i] < 127) \/ v[i] = 9

\* Mutant: only the first Set-Cookie header is taken (headers().get).
set_cookie_headers_FirstOnly(hs) ==
    IF hs # <<>> /\ to_str_ok(Head(hs)) THEN <<Head(hs)>> ELSE <<>>

\* The set_cookie_headers of qr_login: the Set-Cookie values of the response
\* in order, those that to_str cannot read left out.
RECURSIVE set_cookie_headers(_)
set_cookie_headers(hs) ==
    IF hs = <<>> THEN <<>>
    ELSE IF to_str_ok(Head(hs))
         THEN <<Head(hs)>> \o set_cookie_headers(Tail(hs))
         ELSE set_cookie_headers(Tail(hs))

\* Mutant: the values are joined with ";" alone.
RECURSIVE join_NoSpace(_)
join_NoSpace(vs) ==
    IF vs = <<>> THEN <<>>
    ELSE IF Len(vs) = 1 THEN vs[1]
    ELSE vs[1] \o <<59>> \o join_NoSpace(Tail(vs))

\* [String]::join("; ")
RECURSIVE join(_)
join(vs) ==
    IF vs = <<>> THEN <<>>
    ELSE IF Len(vs) = 1 THEN vs[1]
    ELSE vs[1] \o <<59, 32>> \o join(Tail(vs))

LoginResult(success, cookies, error_msg) ==
    [NoVal EXCEPT !.shape = "LoginResult", !.success = success,
                  !.cookies = cookies, !.error_msg = error_msg]

\* Mutant: a non-success status is a hard failure, as in the other commands.
qr_login_HardFailure(status, cookies, text) ==
    LET p == UpstreamResponse("Value", ContentOf(text.content))
    IN  IF ~IsSuccess(status) THEN Err(HttpStatus(status, text))
        ELSE IF ~p.ok THEN Err(UpstreamParseFailed(text, p.err))
        ELSE IF p.error # 0
             THEN Ok(LoginResult(FALSE, None,
                                 IF p.error_msg.some
                                 THEN SomeMsg(Verbatim(p.error_msg.v))
                                 ELSE NoneMsg))
        ELSE Ok(LoginResult(TRUE, Some(join(cookies)), NoneMsg))

\* qr_login from the point where status, the extracted cookies and text are
\* in hand.
qr_login(status, cookies, text) ==
    LET p == UpstreamResponse("Value", ContentOf(text.content))
    IN  IF ~IsSuccess(status)
        THEN Ok(LoginResult(FALSE, None, SomeMsg(HttpStatus(status, text))))
        ELSE IF ~p.ok THEN Err(UpstreamParseFailed(text, p.err))
        ELSE IF p.error # 0
             THEN Ok(LoginResult(FALSE, None,
                                 IF p.error_msg.some
                                 THEN SomeMsg(Verbatim(p.error_msg.v))
                                 ELSE NoneMsg))
        ELSE Ok(LoginResult(TRUE, Some(join(cookies)), NoneMsg))

\* ------------------------------------------------------------------- state

VARIABLES
    pc,        \* per call: "idle", "sending", "reading" or "done"
    cmd,       \* the command called
    method,    \* the method handed to make_api_request ("" for the others)
    arg,       \* the qrcode_id or qrcode_token parameter ("" for the others)
    sent,      \* how many times the request was sent
    status,    \* the status of the response (0 before there is one)
    headers,   \* the Set-Cookie headers of the response
    cookies,   \* qr_login's set_cookie_headers
    text,      \* the response text, once read
    api,       \* what make_api_request returned to the command (kind, message)
    result     \* what the command returned

vars == <<pc, cmd, method, arg, sent, status, headers, cookies, text, api, result>>

Calls == DOMAIN pc

Fresh(S) ==
    /\ pc = [s \in S |-> "idle"]
    /\ cmd = [s \in S |-> ""]
    /\ method = [s \in S |-> ""]
    /\ arg = [s \in S |-> ""]
    /\ sent = [s \in S |-> 0]
    /\ status = [s \in S |-> 0]
    /\ headers = [s \in S |-> <<>>]
    /\ cookies = [s \in S |-> <<>>]
    /\ text = [s \in S |-> NoText]
    /\ api = [s \in S |-> Returned(ApiNone)]
    /\ result = [s \in S |-> NoResult]

Init == Fresh({1})

\* A command is called.  A first-party command logs the request and picks
\* the request builder by method; an unrecognised method returns before any
\* network activity.  (The commands pass fixed, valid methods; the call of
\* make_api_request by itself takes any method.)
InvokeOf(s, commands) ==
    /\ pc[s] = "idle"
    /\ \E c \in commands :
       \E m \in Methods, a \in Args :
          /\ c \in FirstParty => m = Commands[c].method
          /\ c \in ThirdParty => m = "GET"
          /\ c \notin {"check_qr_status", "qr_login"} => a = "abc"
          /\ cmd' = [cmd EXCEPT ![s] = c]
          /\ method' = [method EXCEPT ![s] = IF c \in ThirdParty THEN "" ELSE m]
          /\ arg' = [arg EXCEPT ![s] =
                        IF c \in {"check_qr_status", "qr_login"} THEN a ELSE ""]
          /\ IF c \notin ThirdParty /\ ~ValidMethod(m)
             THEN /\ pc' = [pc EXCEPT ![s] = "done"]
                  /\ api' = [api EXCEPT ![s] = Returned(InvalidMethod)]
                  /\ result' = [result EXCEPT ![s] = Err(InvalidMethod.err)]
             ELSE /\ pc' = [pc EXCEPT ![s] = "sending"]
                  /\ UNCHANGED <<api, result>>
    /\ UNCHANGED <<sent, status, headers, cookies, text>>

Invoke(s) == InvokeOf(s, FirstParty \cup ThirdParty \cup {"make_api_request"})

\* Mutant: after a transport failure the request is sent again (once more
\* at most).
SendFails_Retries(s) ==
    /\ pc[s] = "sending"
    /\ sent[s] < 2
    /\ sent' = [sent EXCEPT ![s] = @ + 1]
    /\ UNCHANGED <<pc, cmd, method, arg, status, headers, cookies, text, api,
                   result>>

\* send() fails: a transport failure.
SendFails(s) ==
    /\ pc[s] = "sending"
    /\ pc' = [pc EXCEPT ![s] = "done"]
    /\ sent' = [sent EXCEPT ![s] = @ + 1]
    /\ api' = [api EXCEPT ![s] =
                  Returned(IF cmd[s] \in ThirdParty THEN ApiNone
                           ELSE ApiErr(RequestFailed))]
    /\ result' = [result EXCEPT ![s] = Err(RequestFailed)]
    /\ UNCHANGED <<cmd, method, arg, status, headers, cookies, text>>

\* send() returns a response: its status and headers are in hand, the body
\* is not read yet.  qr_login takes the status and collects the Set-Cookie
\* values here, before it awaits the text.
SendReturnsWith(s, statuses, headerLists) ==
    /\ pc[s] = "sending"
    /\ \E st \in statuses, hs \in headerLists :
          /\ cmd[s] # "qr_login" => hs = <<>>
          /\ status' = [status EXCEPT ![s] = st]
          /\ headers' = [headers EXCEPT ![s] = hs]
          /\ cookies' = [cookies EXCEPT ![s] =
                            IF cmd[s] = "qr_login" THEN set_cookie_headers(hs)
                            ELSE <<>>]
    /\ pc' = [pc EXCEPT ![s] = "reading"]
    /\ sent' = [sent EXCEPT ![s] = @ + 1]
    /\ UNCHANGED <<cmd, method, arg, text, api, result>>

SendReturns(s) == SendReturnsWith(s, Statuses, HeaderLists)

\* response.text() fails.
ReadFails(s) ==
    /\ pc[s] = "reading"
    /\ pc' = [pc EXCEPT ![s] = "done"]
    /\ api' = [api EXCEPT ![s] =
                  Returned(IF cmd[s] \in ThirdParty THEN ApiNone
                           ELSE ApiErr(ReadFailed))]
    /\ result' = [result EXCEPT ![s] = Err(ReadFailed)]
    /\ UNCHANGED <<cmd, method, arg, sent, status, headers, cookies, text>>

\* The value a call of make_api_request by itself hands back.
DirectCall(r) ==
    IF r.kind = "Panic" THEN Panicked
    ELSE IF r.kind = "Err" THEN Err(r.err)
    ELSE OkShape("Value")

\* Mutant: the body is kept in a buffer all calls share, so a call that
\* reads while another call's body is there works on that one.
ReadReturnsFrom_SharedBody(s, texts) ==
    /\ pc[s] = "reading"
    /\ \E t \in texts :
          LET others == {o \in Calls \ {s} : text[o] # NoText}
              u == IF others = {} THEN t ELSE text[CHOOSE o \in others : TRUE]
              r == make_api_request(
                       IF cmd[s] \in FirstParty THEN Commands[cmd[s]].T ELSE "Value",
                       status[s], u)
          IN  /\ text' = [text EXCEPT ![s] = t]
              /\ api' = [api EXCEPT ![s] =
                            Returned(IF cmd[s] \in ThirdParty THEN ApiNone ELSE r)]
              /\ result' = [result EXCEPT ![s] =
                    CASE cmd[s] \in FirstParty -> FirstPartyCommand(cmd[s], r)
                      [] cmd[s] = "make_api_request" -> DirectCall(r)
                      [] cmd[s] = "qr_login" -> qr_login(status[s], cookies[s], u)
                      [] OTHER -> UpstreamCommand(cmd[s], status[s], u)]
    /\ pc' = [pc EXCEPT ![s] = "done"]
    /\ UNCHANGED <<cmd, method, arg, sent, status, headers, cookies>>

\* response.text() returns the body: the rest of the command runs to its
\* return.
ReadReturnsFrom(s, texts) ==
    /\ pc[s] = "reading"
    /\ \E t \in texts :
          LET r == make_api_request(
                       IF cmd[s] \in FirstParty THEN Commands[cmd[s]].T ELSE "Value",
                       status[s], t)
          IN  /\ text' = [text EXCEPT ![s] = t]
              /\ api' = [api EXCEPT ![s] =
                            Returned(IF cmd[s] \in ThirdParty THEN ApiNone ELSE r)]
              /\ result' = [result EXCEPT ![s] =
                    CASE cmd[s] \in FirstParty -> FirstPartyCommand(cmd[s], r)
                      [] cmd[s] = "make_api_request" -> DirectCall(r)
                      [] cmd[s] = "qr_login" -> qr_login(status[s], cookies[s], t)
                      [] OTHER -> UpstreamCommand(cmd[s], status[s], t)]
    /\ pc' = [pc EXCEPT ![s] = "done"]
    /\ UNCHANGED <<cmd, method, arg, sent, status, headers, cookies>>

ReadReturns(s) == ReadReturnsFrom(s, Texts)

\* The call is over; the caller may call again.  Nothing is kept.
Return(s) ==
    /\ pc[s] = "done"
    /\ pc' = [pc EXCEPT ![s] = "idle"]
    /\ cmd' = [cmd EXCEPT ![s] = ""]
    /\ method' = [method EXCEPT ![s] = ""]
    /\ arg' = [arg EXCEPT ![s] = ""]
    /\ sent' = [sent EXCEPT ![s] = 0]
    /\ status' = [status EXCEPT ![s] = 0]
    /\ headers' = [headers EXCEPT ![s] = <<>>]
    /\ cookies' = [cookies EXCEPT ![s] = <<>>]
    /\ text' = [text EXCEPT ![s] = NoText]
    /\ api' = [api EXCEPT ![s] = Returned(ApiNone)]
    /\ result' = [result EXCEPT ![s] = NoResult]

Next ==
    \/ \E s \in Calls : Invoke(s)
    \/ \E s \in Calls : SendFails(s)
    \/ \E s \in Calls : SendReturns(s)
    \/ \E s \in Calls : ReadFails(s)
    \/ \E s \in Calls : ReadReturns(s)
    \/ \E s \in Calls : Return(s)

Spec == Init /\ [][Next]_vars

\* ------------------------------------------------- two calls at the same time

\* Two calls of the QR commands that take a parameter, in any interleaving:
\* a call suspends at send() and at text(), and the other may run there.
PairCommands == {"check_qr_status", "qr_login"}

PairStatuses == {200, 500}

\* No Set-Cookie header, "a=1" alone, the unreadable value alone.
PairHeaderLists == {<<>>, << <<97, 61, 49>> >>, << <<99, 61, 233>> >>}

PairTexts ==
    {Text("ascii_31", <<"body", k>>) :
        k \in {"waiting_token_empty", "waiting_token_omitted",
               "confirmed_tok123", "error0", "error2_msg", "not_json"}}

InitPair == Fresh({1, 2})

NextPair ==
    \/ \E s \in Calls : InvokeOf(s, PairCommands)
    \/ \E s \in Calls : SendFails(s)
    \/ \E s \in Calls : SendReturnsWith(s, PairStatuses, PairHeaderLists)
    \/ \E s \in Calls : ReadFails(s)
    \/ \E s \in Calls : ReadReturnsFrom(s, PairTexts)
    \/ \E s \in Calls : Return(s)

SpecPair == InitPair /\ [][NextPair]_vars

\* ------------------------------------------------------------------ claims

\* The call has read the response body and returned (or panicked).
BodyRead(s) == pc[s] = "done" /\ text[s] # NoText

\* The body the call read.
Content(s) == ContentOf(text[s].content)

\* The call goes through make_api_request.
UsesExecutor(s) == cmd[s] \in FirstParty \cup {"make_api_request"}

ResponseType(s) ==
    IF cmd[s] \in FirstParty THEN Commands[cmd[s]].T ELSE "Value"

\* C1: every call of make_api_request that received a response with a
\* non-success status returns the HttpStatus failure carrying that status and
\* the raw body text, never a Decode failure or a typed value.
C1_NonSuccessReturnsHttpStatus ==
    \A s \in Calls :
        (UsesExecutor(s) /\ BodyRead(s) /\ ~IsSuccess(status[s]))
            => /\ api[s].kind = "Err"
               /\ api[s].err.fmt = "HTTP {}: {}"
               /\ api[s].err.num = status[s]
               /\ api[s].err.text = text[s]

\* C2: the logging of make_api_request never affects control flow or the
\* return value: whatever the body, the call reaches the status/parse
\* classification and returns what the classification alone returns.
C2_LoggingNeverAffectsResult ==
    \A s \in Calls :
        (UsesExecutor(s) /\ BodyRead(s))
            => api[s] = Returned(ClassifyResponse(ResponseType(s), status[s], text[s]))

\* C3: for every first-party command, a success-status response whose body
\* is {success:false, message:"x"} makes the command return a failure whose
\* message is "x".  (Stated for the bodies the response logging lets
\* through, so that a violation is the command's own.)
C3_FailureCarriesMessage ==
    \A s \in Calls :
        (/\ cmd[s] \in FirstParty
         /\ BodyRead(s)
         /\ IsSuccess(status[s])
         /\ text[s].content = <<"failure_x", "absent">>
         /\ ~ResponseLogPanics(text[s]))
            => /\ result[s].kind = "Err"
               /\ result[s].err = Verbatim(Chars_x)

\* A get_session_ids call that got a success-status response whose body the
\* logging let through and whose envelope has success = true, so that the
\* outcome is decided by the session_id wire value alone.
SessionCase(s) ==
    /\ cmd[s] = "get_session_ids"
    /\ BodyRead(s)
    /\ IsSuccess(status[s])
    /\ ~ResponseLogPanics(text[s])
    /\ Content(s).json
    /\ Content(s).success = JBool(TRUE)
    /\ Content(s).message.t \in {"absent", "null", "str"}

Wire(s) == Content(s).session_id

\* The base-10 text of an integer token.
Base10(v) == (IF v.neg THEN <<"-">> ELSE <<>>) \o DigitsToChars(v.int)

IsIntegerToken(v) == v.t = "num" /\ v.frac = <<>>

\* An integer token that an i64 or a u64 holds (and is not "-0").
In64BitRange(v) ==
    IF v.neg THEN v.int # <<0>> /\ DigitsLeq(v.int, I64MinMagnitude)
    ELSE DigitsLeq(v.int, U64MaxDigits)

ReturnsSessionIds(s, ids) ==
    result[s].kind = "Ok" /\ result[s].val.session_ids = ids

ReturnsDecodeFailure(s) ==
    /\ result[s].kind = "Err"
    /\ result[s].err.fmt = "Failed to parse response: {} - {}"

C5_MissingFieldIsAbsent ==
    \A s \in Calls :
        (SessionCase(s) /\ Wire(s).t = "absent") => ReturnsSessionIds(s, <<>>)

\* C6: a numeric session_id that is not a whole number (1.5) is an error of
\* the decode and never produces an identifier string.
C6_FractionIsError ==
    \A s \in Calls :
        (/\ SessionCase(s)
         /\ Wire(s).t = "num"
         /\ StripTrailingZeros(Wire(s).frac) # <<>>)
            => result[s].kind # "Ok"

\* A header value that reads as text: visible ASCII or a tab.
Readable(v) == \A i \in DOMAIN v : v[i] \in (32..126) \cup {9}

ReadableValues(hs) == SelectSeq(hs, Readable)

\* The first n of vs, with "; " between neighbours.
RECURSIVE JoinedUpTo(_, _)
JoinedUpTo(vs, n) ==
    IF n = 0 THEN <<>>
    ELSE JoinedUpTo(vs, n - 1) \o (IF n > 1 THEN <<59, 32>> ELSE <<>>) \o vs[n]

Joined(vs) == JoinedUpTo(vs, Len(vs))

\* C7: in qr_login a response with a non-success status, with or without
\* Set-Cookie headers, gives the ordinary outcome LoginResult{success:false,
\* error_msg: status + body}, not a hard failure.
C7_NonSuccessIsOrdinaryOutcome ==
    \A s \in Calls :
        (cmd[s] = "qr_login" /\ BodyRead(s) /\ ~IsSuccess(status[s]))
            => /\ result[s].kind = "Ok"
               /\ result[s].val.success = FALSE
               /\ result[s].val.cookies = None
               /\ result[s].val.error_msg = SomeMsg(HttpStatus(status[s], text[s]))

\* A 500 response with a Set-Cookie header came back as success = false.
C7_Witness ==
    \E s \in Calls :
        /\ cmd[s] = "qr_login" /\ BodyRead(s)
        /\ status[s] = 500
        /\ headers[s] # <<>>
        /\ result[s].kind = "Ok" /\ ~result[s].val.success

PollCase(s) ==
    /\ cmd[s] = "check_qr_status"
    /\ BodyRead(s)
    /\ IsSuccess(status[s])
    /\ Content(s).json
    /\ Content(s).error = JInt(FALSE, <<0>>)
    /\ Content(s).error_msg.t = "absent"
    /\ Content(s).data.t = "obj"
    /\ Content(s).status.t = "str"

\* C10: check_qr_status treats an empty-string token and an omitted token
\* alike: in both cases it returns a QRStatus with token absent; it never
\* returns a token that is present and empty.
C10_EmptyAndOmittedTokenAlike ==
    \A s \in Calls :
        /\ (PollCase(s) /\ Content(s).qrcode_token \in {JStr(<<>>), JAbsent})
              => /\ result[s].kind = "Ok"
                 /\ result[s].val.qrcode_token = None
        /\ (cmd[s] = "check_qr_status" /\ result[s].kind = "Ok")
              => result[s].val.qrcode_token # Some(<<>>)


\* A generate_shopee_qr, check_qr_status or get_account_info call that got a
\* success-status response and read its body.
UpstreamCase(s) ==
    /\ cmd[s] \in {"generate_shopee_qr", "check_qr_status", "get_account_info"}
    /\ BodyRead(s)
    /\ IsSuccess(status[s])

\* The body is an upstream envelope with the given error code, no (or a
\* string) error_msg, and no data: the key is missing or null.
EnvelopeWithoutData(c, code) ==
    /\ c.json
    /\ c.error = JInt(FALSE, <<code>>)
    /\ c.error_msg.t \in {"absent", "str"}
    /\ c.data.t \in {"absent", "null"}

\* C11: for generate_shopee_qr, check_qr_status and get_account_info, a
\* success-status response with error = 0 and no data yields the command's
\* missing-data failure, which differs from the failure for a nonzero error
\* code; a value is returned only when error = 0 and data is present.
C11_MissingDataIsItsOwnFailure ==
    \A s \in Calls :
        UpstreamCase(s) =>
            /\ EnvelopeWithoutData(Content(s), 0)
                  => /\ result[s] = Err(Fixed(UpstreamMissing[cmd[s]]))
                     /\ result[s].err.fmt # "Shopee API error: {} - {}"
            /\ EnvelopeWithoutData(Content(s), 2)
                  => /\ result[s].kind = "Err"
                     /\ result[s].err.fmt = "Shopee API error: {} - {}"
                     /\ result[s].err.num = 2
            /\ result[s].kind = "Ok"
                  => /\ Content(s).error = JInt(FALSE, <<0>>)
                     /\ Content(s).data.t = "obj"

\* generate_shopee_qr got 200 with body {error:0} and returned its
\* missing-data failure.
C11_Witness ==
    \E s \in Calls :
        /\ cmd[s] = "generate_shopee_qr" /\ BodyRead(s)
        /\ status[s] = 200
        /\ text[s].content = <<"body", "error0">>
        /\ result[s] = Err(Fixed("Invalid response from Shopee API"))


\* The key a create command reads its object from.
CreatedKey(s) ==
    IF cmd[s] = "create_niche" THEN Content(s).niche ELSE Content(s).product_set

\* A create_niche or create_product_set call that got a success-status
\* response whose body is an envelope with success = true and without the
\* command's key (missing, or null).
CreateWithoutKey(s) ==
    /\ cmd[s] \in {"create_niche", "create_product_set"}
    /\ BodyRead(s)
    /\ IsSuccess(status[s])
    /\ Content(s).json
    /\ Content(s).success = JBool(TRUE)
    /\ Content(s).message.t \in {"absent", "null", "str"}
    /\ CreatedKey(s).t \in {"absent", "null"}

\* C12: create_niche on a success-status response with success = true whose
\* body has no "niche" key returns a failure, never a niche built from a
\* missing or null object; the same for create_product_set and "product_set".
C12_MissingKeyIsFailure ==
    \A s \in Calls : CreateWithoutKey(s) => result[s].kind = "Err"


\* C13: add_shopee_account and update_shopee_account both read the account
\* from the key "shopee_account": on a success-status response with body
\* {success:true, shopee_account:{...}} both return the account.  (Stated for
\* the bodies the response logging lets through, so that a violation is the
\* command's own.)
C13_BothReadShopeeAccount ==
    \A s \in Calls :
        (/\ cmd[s] \in {"add_shopee_account", "update_shopee_account"}
         /\ BodyRead(s)
         /\ IsSuccess(status[s])
         /\ text[s].content = <<"body", "success_shopee_account">>
         /\ ~ResponseLogPanics(text[s]))
            => result[s] = OkShape("ShopeeAccount")


\* C14 (as stated): every call of make_api_request performs exactly one
\* network round trip, a call with an unrecognised method included.
C14_ExactlyOneRoundTrip ==
    \A s \in Calls : (UsesExecutor(s) /\ pc[s] = "done") => sent[s] = 1

\* C14 (amended): a call of make_api_request with a recognised method sends
\* the request exactly once, whether the call ends in a transport failure, a
\* non-success status, a parse failure or a value, and never sends it again;
\* a call with an unrecognised method sends nothing.
C14_OneRoundTripUnlessInvalidMethod ==
    \A s \in Calls :
        UsesExecutor(s) =>
            /\ sent[s] <= 1
            /\ pc[s] = "sending" => sent[s] = 0
            /\ pc[s] = "reading" => sent[s] = 1
            /\ pc[s] = "done"
                  => sent[s] = IF ValidMethod(method[s]) THEN 1 ELSE 0

\* A call whose body did not parse has ended, and the request was sent once.
C14_Witness ==
    \E s \in Calls :
        /\ UsesExecutor(s) /\ pc[s] = "done"
        /\ api[s].kind = "Err"
        /\ api[s].err.fmt = "Failed to parse response: {} - {}"
        /\ sent[s] = 1


\* A Poll of a challenge that is not confirmed yet: the upstream answers with
\* error = 0 and a data object whose status is a string and whose token is
\* the empty string or is omitted.
Unconfirmed(s) ==
    /\ PollCase(s)
    /\ Content(s).qrcode_token \in {JStr(<<>>), JAbsent}

\* C15: repeated check_qr_status calls with the same qrId while the
\* challenge is unconfirmed each return the upstream status unchanged and an
\* absent token, and two such calls that got the same upstream status return
\* the same, whichever ran first.
C15_PollIdempotentBeforeConfirmation ==
    \A s, t \in Calls :
        (/\ Unconfirmed(s) /\ Unconfirmed(t)
         /\ arg[s] = arg[t]
         /\ Content(s).status = Content(t).status)
            => /\ result[s].kind = "Ok"
               /\ result[s].val.status = Content(s).status.s
               /\ result[s].val.qrcode_token = None
               /\ result[t] = result[s]

\* All of a call's state.
Slot(s) ==
    <<pc[s], cmd[s], method[s], arg[s], sent[s], status[s], headers[s],
      cookies[s], text[s], api[s], result[s]>>

\* What a QR call returns when it runs alone with the same parameter and
\* gets the same response.
Alone(s) ==
    IF cmd[s] = "qr_login"
    THEN qr_login(status[s], set_cookie_headers(headers[s]), text[s])
    ELSE UpstreamCommand(cmd[s], status[s], text[s])

\* A step is one call's: it leaves all of every other call's state as it is.
OneCallSteps == \E t \in Calls : \A s \in Calls \ {t} : Slot(s)' = Slot(s)

\* C16: in every interleaving of two concurrently running QR calls, each
\* call that read its response returns what it would return alone with its
\* own parameter and its own response, and no step of a call reads or
\* changes anything of the other call.
C16_CallsAreIndependent ==
    /\ [](\A s \in Calls : BodyRead(s) => result[s] = Alone(s))
    /\ [][OneCallSteps]_vars

\* A Poll and an Exchange were in flight together and both returned: the
\* Poll its status, the Exchange its cookies.
C16_Witness ==
    /\ cmd[1] = "check_qr_status" /\ BodyRead(1)
    /\ cmd[2] = "qr_login" /\ BodyRead(2)
    /\ text[1] # text[2]
    /\ result[1].kind = "Ok" /\ result[1].val.status = Chars_WAITING
    /\ result[2].kind = "Ok" /\ result[2].val.success
    /\ result[2].val.cookies = Some(<<97, 61, 49>>)


\* A first-party command whose response was parsed by make_api_request and
\* has success = false.
ParsedFailure(s) ==
    /\ cmd[s] \in FirstParty
    /\ BodyRead(s)
    /\ api[s].kind = "Ok"
    /\ Content(s).success = JBool(FALSE)

\* C17: no first-party command returns a success value when the response's
\* success flag is false: a parsed response with success = false yields Err
\* with the response's message if it has one and the command's fixed default
\* text otherwise, also when the payload fields are in the body.
C17_FailureNeverYieldsValue ==
    \A s \in Calls :
        ParsedFailure(s) =>
            /\ result[s].kind = "Err"
            /\ result[s].err =
                  IF Content(s).message.t = "str"
                  THEN Verbatim(Content(s).message.s)
                  ELSE Fixed(Commands[cmd[s]].default)


\* C18: qr_login reports success only with a usable credential: whenever it
\* returns success = true, the cookies string is present and not empty.
C18_SuccessHasCookies ==
    \A s \in Calls :
        (/\ cmd[s] = "qr_login" /\ pc[s] = "done"
         /\ result[s].kind = "Ok"
         /\ result[s].val.success)
            => /\ result[s].val.cookies.some
               /\ result[s].val.cookies.v # <<>>

====
